---- MODULE Spec2Model ----
(***************************************************************************)
(* Request handling of the Math Solver API (backend/main.py): the two     *)
(* handlers solve_problem (/api/solve) and explain_solution               *)
(* (/api/explain), the image decoding and prompt assembly they perform,    *)
(* the single outbound generation call each makes, and the mapping of      *)
(* results and exceptions to HTTP responses.                               *)
(*                                                                         *)
(* Text is a sequence of tokens.  A token is one character ("Q", "+") or   *)
(* a fragment of literal text of the source, kept whole.  User-supplied    *)
(* text and error messages are spelled character by character.            *)
(***************************************************************************)
EXTENDS Integers, Sequences, FiniteSets, TLC

\* ------------------------------------------------------------------ bounds

\* Number of requests that may be in flight at once (ConcurrentSpec).
NumRequests == 2

\* Longest image_data payload enumerated exhaustively (Spec).
MaxPayloadLen == 4

Requests == 1..NumRequests

\* ------------------------------------------------------------- Python values

\* Optional[str]: None, or a str.
None == [isNone |-> TRUE]

Some(s) == [isNone |-> FALSE, val |-> s]

\* Python truthiness of an Optional[str]: None and "" are falsy.
Truthy(opt) == (~opt.isNone) /\ opt.val # <<>>

\* ------------------------------------------------------------------- text

\* needle in hay
Contains(hay, needle) ==
    \E i \in 0..(Len(hay) - Len(needle)) :
        SubSeq(hay, i + 1, i + Len(needle)) = needle

\* hay.startswith(prefix)
StartsWith(hay, prefix) ==
    Len(prefix) <= Len(hay) /\ SubSeq(hay, 1, Len(prefix)) = prefix

UpperLetters == <<"A", "B", "C", "D", "E", "F", "G", "H", "I", "J", "K", "L", "M",
                  "N", "O", "P", "Q", "R", "S", "T", "U", "V", "W", "X", "Y", "Z">>

LowerLetters == <<"a", "b", "c", "d", "e", "f", "g", "h", "i", "j", "k", "l", "m",
                  "n", "o", "p", "q", "r", "s", "t", "u", "v", "w", "x", "y", "z">>

LowerChar(c) ==
    IF \E i \in 1..Len(UpperLetters) : UpperLetters[i] = c
    THEN LowerLetters[CHOOSE i \in 1..Len(UpperLetters) : UpperLetters[i] = c]
    ELSE c

\* str.lower()
Lower(s) == [i \in 1..Len(s) |-> LowerChar(s[i])]

\* All sequences over alphabet of length at most n.
RECURSIVE SeqsUpTo(_, _)
SeqsUpTo(alphabet, n) ==
    IF n = 0 THEN {<<>>}
    ELSE LET shorter == SeqsUpTo(alphabet, n - 1)
         IN  shorter \cup {Append(s, c) : s \in {t \in shorter : Len(t) = n - 1},
                                          c \in alphabet}

\* ----------------------------------------------------------- image decoding

\* Characters of image_data payloads: two base64 digits ("A" is 0, "/" is
\* 63), the pad, the comma, an ASCII character outside the base64 alphabet,
\* and a non-ASCII character.
PayloadChars == {"A", "/", "=", ",", "-", "NONASCII"}

IsAscii(c) == c # "NONASCII"

IsB64Digit(c) == c \in {"A", "/"}

B64Value(c) == IF c = "A" THEN 0 ELSE 63

\* str.split(",") : the list of the parts between commas.
RECURSIVE SplitComma(_)
SplitComma(s) ==
    IF \A i \in 1..Len(s) : s[i] # ","
    THEN <<s>>
    ELSE LET k == CHOOSE i \in 1..Len(s) :
                      s[i] = "," /\ \A j \in 1..(i - 1) : s[j] # ","
         IN  <<SubSeq(s, 1, k - 1)>> \o SplitComma(SubSeq(s, k + 1, Len(s)))

\* Lines 75-78: the text handed to base64.b64decode.
StripHeader(image_data) ==
    IF \E i \in 1..Len(image_data) : image_data[i] = ","
    THEN SplitComma(image_data)[2]
    ELSE image_data

\* binascii.a2b_base64 (not strict), one character at a time.  st holds the
\* decoder's quad_pos, leftchar, pads, the bytes produced and whether a
\* complete pad sequence ended the parse.
A2bStep(st, c) ==
    IF st.done THEN st
    ELSE IF c = "="
    THEN IF st.quad_pos >= 2 /\ st.quad_pos + st.pads + 1 >= 4
         THEN [st EXCEPT !.done = TRUE, !.pads = st.pads + 1]
         ELSE IF st.quad_pos >= 2
              THEN [st EXCEPT !.pads = st.pads + 1]
              ELSE st
    ELSE IF ~IsB64Digit(c) THEN st
    ELSE LET v == B64Value(c)
         IN  CASE st.quad_pos = 0 ->
                    [st EXCEPT !.quad_pos = 1, !.leftchar = v, !.pads = 0]
               [] st.quad_pos = 1 ->
                    [st EXCEPT !.quad_pos = 2, !.pads = 0,
                               !.bytes = Append(st.bytes, (st.leftchar * 4 + v \div 16) % 256),
                               !.leftchar = v % 16]
               [] st.quad_pos = 2 ->
                    [st EXCEPT !.quad_pos = 3, !.pads = 0,
                               !.bytes = Append(st.bytes, (st.leftchar * 16 + v \div 4) % 256),
                               !.leftchar = v % 4]
               [] st.quad_pos = 3 ->
                    [st EXCEPT !.quad_pos = 0, !.pads = 0,
                               !.bytes = Append(st.bytes, (st.leftchar * 64 + v) % 256),
                               !.leftchar = 0]

\* The decoder's loop over s from position i on.  (The singleton set makes
\* each step's state a value before the next step reads it.)
RECURSIVE A2bRun(_, _, _)
A2bRun(st, s, i) ==
    IF i > Len(s) THEN st
    ELSE CHOOSE out \in {A2bRun(next, s, i + 1) : next \in {A2bStep(st, s[i])}} : TRUE

MsgNonAscii == <<"string argument should contain only ASCII characters">>

MsgIncorrectPadding == <<"Incorrect padding">>

MsgBadLength(n) ==
    <<"Invalid base64-encoded string: number of data characters (", ToString(n),
      ") cannot be 1 more than a multiple of 4">>

MsgCannotIdentify == <<"cannot identify image file <_io.BytesIO object>">>

\* Line 80: base64.b64decode(base64_data).  [ok, bytes] or [ok, msg].
B64Decode(s) ==
    IF \E i \in 1..Len(s) : ~IsAscii(s[i])
    THEN [ok |-> FALSE, msg |-> MsgNonAscii]
    ELSE LET st == A2bRun([quad_pos |-> 0, leftchar |-> 0, pads |-> 0,
                           bytes |-> <<>>, done |-> FALSE], s, 1)
         IN  IF st.done \/ st.quad_pos = 0
             THEN [ok |-> TRUE, bytes |-> st.bytes]
             ELSE IF st.quad_pos = 1
             THEN [ok |-> FALSE, msg |-> MsgBadLength((Len(st.bytes) \div 3) * 4 + 1)]
             ELSE [ok |-> FALSE, msg |-> MsgIncorrectPadding]

\* First byte of a file PIL identifies as an image (stands for the format
\* signatures PIL knows).
ImageSignature == 255

\* Line 81: Image.open(io.BytesIO(image_bytes)).
ImageOpen(bytes) ==
    IF Len(bytes) >= 1 /\ bytes[1] = ImageSignature
    THEN [ok |-> TRUE, img |-> [image |-> bytes]]
    ELSE [ok |-> FALSE, msg |-> MsgCannotIdentify]

\* Lines 80-81 on a given base64 text.
DecodeBase64Image(base64_data) ==
    LET raw == B64Decode(base64_data)
    IN  IF raw.ok THEN ImageOpen(raw.bytes) ELSE raw

\* Lines 75-81: the Image Decoder on an image_data payload.
DecodeImageData(image_data) == DecodeBase64Image(StripHeader(image_data))

\* ----------------------------------------------------------------- prompts

\* Lines 58-67: solve_prompt_base, with the request's language interpolated.
solve_prompt_base(language) ==
    <<"TASK: You are a world-class STEM (Math, Physics, Chemistry) solver. ",
      "REQUIREMENTS: 1. Solve the problem COMPLETELY using the shortest and easiest method ",
      "2. Provide step-by-step solution with ALL intermediate calculations ",
      "3. ALWAYS show the final numerical answer clearly at the end ",
      "4. Use simple math symbols (*, /, +, ^) only - NO LaTeX/MathJax ",
      "5. Respond in ">> \o language \o
    <<" language ",
      "CRITICAL: You MUST complete ALL calculations and show the final answer. Do not stop mid-calculation.">>

\* SolveImagePrompt that also quotes the request's problem text.
SolveImagePromptWithProblem(req) ==
    <<"Solve the math problem shown in the attached image. ">>
        \o <<"'">> \o req.problem \o <<"'. ">> \o solve_prompt_base(req.language)

\* Line 84: the prompt that accompanies an image.
SolveImagePrompt(req) ==
    <<"Solve the math problem shown in the attached image. ">>
        \o solve_prompt_base(req.language)

\* SolveTextPrompt with the problem left out of the f-string.
SolveTextPromptNoProblem(req) ==
    <<"Solve the following problem: '">> \o <<"'. ">>
        \o solve_prompt_base(req.language)

\* Line 88: the text-only prompt.
SolveTextPrompt(req) ==
    <<"Solve the following problem: '">> \o req.problem \o <<"'. ">>
        \o solve_prompt_base(req.language)

\* Lines 113-119: the explain prompt.
ExplainPrompt(req) ==
    <<"TASK: You are an expert STEM tutor. Your goal is to simplify the provided detailed solution. ",
      "The explanation must be easy to understand for a middle school student, use simple math symbols (*, /, +) only, and be highly efficient. ",
      "The original problem was: ">> \o req.problem \o
    <<" The detailed solution to simplify is: ">> \o req.solution \o
    <<" Provide the simplified explanation in ">> \o req.language \o <<" language.">>

\* Members of the contents list handed to generate_content.
ImagePart(img) == [kind |-> "image", image |-> img]

TextPart(text) == [kind |-> "text", text |-> text]

\* NewContents for a contents list kept at module level: a request starts
\* from what an earlier request has put there.
SharedContents(r, allContents) ==
    IF r > 1 THEN allContents[r - 1] ELSE <<>>

\* Line 69: contents = [], a list local to the call.
NewContents(r, allContents) == <<>>

\* Temperature is kept in tenths (0.0 and 0.2).
SolveTemperatureTenths == 0

SolveMaxOutputTokens == 2500

ExplainTemperatureTenths == 2

ExplainMaxOutputTokens == 800

\* Lines 92-95 and 123-126: the generation_config of each handler.
GenerationConfig(endpoint) ==
    IF endpoint = "solve"
    THEN [temperature |-> SolveTemperatureTenths, max_output_tokens |-> SolveMaxOutputTokens]
    ELSE [temperature |-> ExplainTemperatureTenths, max_output_tokens |-> ExplainMaxOutputTokens]

\* ------------------------------------------------------ exceptions, responses

\* Line 86: the exception the inner handler raises for an undecodable image.
InvalidImageException(reason) ==
    [type |-> "HTTPException", status_code |-> 400,
     detail |-> <<"Invalid image data: ">> \o reason]

\* An exception of the generation library or of response.text.
GenerationException(msg) == [type |-> "Exception", msg |-> msg]

\* str(e) of an HTTPException depends on the installed framework: releases
\* that define __str__ give "<status_code>: <detail>", earlier ones the
\* empty string (the exception is built from keyword arguments only).
HTTPExceptionStrFormats == {"status_detail", "empty"}

\* ExceptionStr using repr(e) where str(e) is meant.
ExceptionRepr(e, fmt) ==
    IF e.type = "HTTPException"
    THEN <<"HTTPException(status_code=", ToString(e.status_code), ", detail='">>
             \o e.detail \o <<"')">>
    ELSE <<"Exception('">> \o e.msg \o <<"')">>

\* str(e), lines 103 and 133.
ExceptionStr(e, fmt) ==
    IF e.type = "HTTPException"
    THEN IF fmt = "status_detail"
         THEN <<ToString(e.status_code), ": ">> \o e.detail
         ELSE <<>>
    ELSE e.msg

Quota == <<"q", "u", "o", "t", "a">>

QuotaGuidance == <<"API Quota exceeded. Please wait a few seconds and try again. ">>

\* The HTTP response FastAPI sends for a raised HTTPException.
HTTPError(status_code, detail) ==
    [status |-> status_code, body |-> [detail |-> detail]]

\* QuotaDetail with the test made case-sensitive ("quota" in detail).
QuotaDetailCaseSensitive(detail) ==
    IF Contains(detail, Quota) THEN QuotaGuidance \o detail ELSE detail

\* Lines 103-105 and 133-135: the detail built from str(e).
QuotaDetail(detail) ==
    IF Contains(Lower(detail), Quota) THEN QuotaGuidance \o detail ELSE detail

\* OuterExcept answering with an empty solution beside the detail.
OuterExceptPartial(e, fmt) ==
    [status |-> 500,
     body |-> [detail |-> QuotaDetail(ExceptionStr(e, fmt)), solution |-> <<>>]]

\* Lines 100-106 and 131-136: except Exception as e, in both handlers.
OuterExcept(e, fmt) == HTTPError(500, QuotaDetail(ExceptionStr(e, fmt)))

\* Lines 98 and 129: the returned dict, sent with status 200.
Success(endpoint, text) ==
    [status |-> 200,
     body |-> IF endpoint = "solve" THEN [solution |-> text]
                                    ELSE [explanation |-> text]]

\* response.text of a response without a usable candidate raises ValueError.
MsgNoText == <<"Invalid operation: The response.text quick accessor requires the response to contain a valid Part">>

\* ------------------------------------------------------------------- state

VARIABLES
    pc,           \* each request's position in its handler
    request,      \* the SolveRequest or ExplainRequest of each request
    base64_data,  \* solve: the text handed to b64decode (line 76 or 78)
    decoded,      \* solve: outcome of lines 80-81
    contents,     \* solve: the contents list
    prompt,       \* explain: the prompt
    sent,         \* the generate_content calls each request has made
    result,       \* outcome of the generation call in progress
    responses     \* the HTTP responses sent for each request

vars == <<pc, request, base64_data, decoded, contents, prompt, sent, result, responses>>

NoRequest == [endpoint |-> "none"]

Undecoded == [state |-> "none"]

NoResult == [state |-> "none"]

Pending == [state |-> "pending"]

Returned(text) == [state |-> "returned", text |-> text]

Raised(msg) == [state |-> "raised", msg |-> msg]

SolveRequest(problem, language, image_data) ==
    [endpoint |-> "solve", problem |-> problem, language |-> language,
     image_data |-> image_data]

ExplainRequest(problem, solution, language) ==
    [endpoint |-> "explain", problem |-> problem, solution |-> solution,
     language |-> language]

Init ==
    /\ pc = [r \in Requests |-> "Idle"]
    /\ request = [r \in Requests |-> NoRequest]
    /\ base64_data = [r \in Requests |-> None]
    /\ decoded = [r \in Requests |-> Undecoded]
    /\ contents = [r \in Requests |-> <<>>]
    /\ prompt = [r \in Requests |-> <<>>]
    /\ sent = [r \in Requests |-> <<>>]
    /\ result = [r \in Requests |-> NoResult]
    /\ responses = [r \in Requests |-> <<>>]

\* ----------------------------------------------------------------- actions

\* A POST to /api/solve or /api/explain arrives.
Receive(r, bodies) ==
    /\ pc[r] = "Idle"
    /\ pc' = [pc EXCEPT ![r] = "Received"]
    /\ \E body \in bodies : request' = [request EXCEPT ![r] = body]
    /\ UNCHANGED <<base64_data, decoded, contents, prompt, sent, result, responses>>

\* Lines 54-69 and 109-111: the body is parsed into the request model and
\* the handler is entered; solve starts its contents list.
Validate(r) ==
    /\ pc[r] = "Received"
    /\ pc' = [pc EXCEPT ![r] = "Validated"]
    /\ contents' = [contents EXCEPT ![r] = NewContents(r, contents)]
    /\ UNCHANGED <<request, base64_data, decoded, prompt, sent, result, responses>>

\* OnDecodeFailure that swallows the exception and carries on.
OnDecodeFailureIgnored(r, reason) ==
    /\ pc' = [pc EXCEPT ![r] = "ImageDecoded"]
    /\ UNCHANGED <<contents, responses>>

\* Lines 85-86, then 100-106: the inner handler raises HTTPException(400),
\* which the enclosing "except Exception" catches in turn.
OnDecodeFailure(r, reason) ==
    /\ \E fmt \in HTTPExceptionStrFormats :
           responses' = [responses EXCEPT ![r] =
               Append(@, OuterExcept(InvalidImageException(reason), fmt))]
    /\ pc' = [pc EXCEPT ![r] = "Responded"]
    /\ UNCHANGED contents

\* Lines 71-86.
DecodeImage(r) ==
    /\ pc[r] = "Validated"
    /\ request[r].endpoint = "solve"
    /\ Truthy(request[r].image_data)
    /\ \E b64 \in {StripHeader(request[r].image_data.val)} :
       \E d \in {DecodeBase64Image(b64)} :
           /\ base64_data' = [base64_data EXCEPT ![r] = Some(b64)]
           /\ decoded' = [decoded EXCEPT ![r] = d]
           /\ IF d.ok
              THEN /\ contents' = [contents EXCEPT ![r] = Append(@, ImagePart(d.img))]
                   /\ pc' = [pc EXCEPT ![r] = "ImageDecoded"]
                   /\ UNCHANGED responses
              ELSE OnDecodeFailure(r, d.msg)
    /\ UNCHANGED <<request, prompt, sent, result>>

\* Lines 84 and 88 (solve), 113-119 (explain).
BuildPrompt(r) ==
    /\ \/ /\ request[r].endpoint = "solve"
          /\ pc[r] = "ImageDecoded"
          /\ contents' = [contents EXCEPT ![r] = Append(@, TextPart(SolveImagePrompt(request[r])))]
          /\ UNCHANGED prompt
       \/ /\ request[r].endpoint = "solve"
          /\ pc[r] = "Validated"
          /\ ~Truthy(request[r].image_data)
          /\ contents' = [contents EXCEPT ![r] = Append(@, TextPart(SolveTextPrompt(request[r])))]
          /\ UNCHANGED prompt
       \/ /\ request[r].endpoint = "explain"
          /\ pc[r] = "Validated"
          /\ prompt' = [prompt EXCEPT ![r] = ExplainPrompt(request[r])]
          /\ UNCHANGED contents
    /\ pc' = [pc EXCEPT ![r] = "PromptBuilt"]
    /\ UNCHANGED <<request, base64_data, decoded, sent, result, responses>>

\* Lines 90-96 and 121-127: the call to generate_content goes out.
InvokeGeneration(r) ==
    /\ pc[r] = "PromptBuilt"
    /\ pc' = [pc EXCEPT ![r] = "GenerationInvoked"]
    /\ sent' = [sent EXCEPT ![r] = Append(@,
                   [contents |-> IF request[r].endpoint = "solve"
                                 THEN contents[r] ELSE prompt[r],
                    generation_config |-> GenerationConfig(request[r].endpoint)])]
    /\ result' = [result EXCEPT ![r] = Pending]
    /\ UNCHANGED <<request, base64_data, decoded, contents, prompt, responses>>

\* The generation service answers the call with a response that has text.
GenerationReturns(r, text) ==
    /\ pc[r] = "GenerationInvoked"
    /\ result[r] = Pending
    /\ result' = [result EXCEPT ![r] = Returned(Some(text))]
    /\ UNCHANGED <<pc, request, base64_data, decoded, contents, prompt, sent, responses>>

\* The service answers with a response that has no text part.
GenerationReturnsNoText(r) ==
    /\ pc[r] = "GenerationInvoked"
    /\ result[r] = Pending
    /\ result' = [result EXCEPT ![r] = Returned(None)]
    /\ UNCHANGED <<pc, request, base64_data, decoded, contents, prompt, sent, responses>>

\* generate_content raises (authentication, network, quota, ...).
GenerationRaises(r, msg) ==
    /\ pc[r] = "GenerationInvoked"
    /\ result[r] = Pending
    /\ result' = [result EXCEPT ![r] = Raised(msg)]
    /\ UNCHANGED <<pc, request, base64_data, decoded, contents, prompt, sent, responses>>

\* Lines 98 and 129: return {"solution": response.text}.
OnGenerationSuccess(r, text) ==
    /\ responses' = [responses EXCEPT ![r] = Append(@, Success(request[r].endpoint, text))]
    /\ pc' = [pc EXCEPT ![r] = "Responded"]
    /\ UNCHANGED <<sent, result>>

\* OnGenerationException with a retry: a failed call is placed again (up to
\* three calls) before the error is reported.
OnGenerationExceptionRetry(r, e) ==
    IF Len(sent[r]) < 3
    THEN /\ pc' = [pc EXCEPT ![r] = "PromptBuilt"]
         /\ result' = [result EXCEPT ![r] = NoResult]
         /\ UNCHANGED <<sent, responses>>
    ELSE /\ \E fmt \in HTTPExceptionStrFormats :
                responses' = [responses EXCEPT ![r] = Append(@, OuterExcept(e, fmt))]
         /\ pc' = [pc EXCEPT ![r] = "Responded"]
         /\ UNCHANGED <<sent, result>>

\* Lines 100-106 and 131-136 for an exception of the generation step.
OnGenerationException(r, e) ==
    /\ \E fmt \in HTTPExceptionStrFormats :
           responses' = [responses EXCEPT ![r] = Append(@, OuterExcept(e, fmt))]
    /\ pc' = [pc EXCEPT ![r] = "Responded"]
    /\ UNCHANGED <<sent, result>>

\* The call has ended; the handler returns or its except clause runs.
Respond(r) ==
    /\ pc[r] = "GenerationInvoked"
    /\ result[r].state \in {"returned", "raised"}
    /\ IF result[r].state = "raised"
       THEN OnGenerationException(r, GenerationException(result[r].msg))
       ELSE IF result[r].text.isNone
       THEN OnGenerationException(r, GenerationException(MsgNoText))
       ELSE OnGenerationSuccess(r, result[r].text.val)
    /\ UNCHANGED <<request, base64_data, decoded, contents, prompt>>

HandlerStep(r) ==
    \/ Validate(r)
    \/ DecodeImage(r)
    \/ BuildPrompt(r)
    \/ InvokeGeneration(r)
    \/ Respond(r)

\* ------------------------------------------------------------------ inputs

Problems == {<<>>, <<"2", "+", "2">>, <<"x">>}

Solutions == {<<"2", "+", "2", "=", "4">>, <<>>}

Languages == {<<"E", "n", "g", "l", "i", "s", "h">>, <<"B", "e", "n", "g", "a", "l", "i">>}

ImagePayloads == {None} \cup {Some(s) : s \in SeqsUpTo(PayloadChars, MaxPayloadLen)}

Bodies ==
    {SolveRequest(p, l, i) : p \in Problems, l \in Languages, i \in ImagePayloads}
        \cup {ExplainRequest(p, s, l) : p \in Problems, s \in Solutions, l \in Languages}

GeneratedTexts == {<<"4">>, <<"q", "u", "o", "t", "a">>}

ErrorMessages ==
    {<<"4", "2", "9", " ", "Q", "u", "o", "t", "a", " ", "e", "x", "c", "e", "e", "d", "e", "d">>,
     <<"R", "E", "S", "O", "U", "R", "C", "E", "_", "E", "X", "H", "A", "U", "S", "T", "E", "D",
       ":", " ", "Q", "U", "O", "T", "A">>,
     <<"q", "u", "o", "t", "e">>,
     <<"A", "P", "I", " ", "k", "e", "y", " ", "n", "o", "t", " ", "v", "a", "l", "i", "d">>,
     <<>>}

\* One request at a time, over every body.
Next ==
    \/ Receive(1, Bodies)
    \/ HandlerStep(1)
    \/ \E text \in GeneratedTexts : GenerationReturns(1, text)
    \/ GenerationReturnsNoText(1)
    \/ \E msg \in ErrorMessages : GenerationRaises(1, msg)

Spec == Init /\ [][Next]_vars

\* Concurrent requests: request r carries the problem "r+r"; the service's
\* text for its call is marked with r.  Handler steps of different requests
\* interleave freely, which covers the schedules of one event loop (where a
\* handler runs from entry to response without yielding) and of several
\* workers.
ProblemOf(r) == <<ToString(r), "+", ToString(r)>>

ConcurrentPayloads ==
    {None,
     Some(<<"d", "a", "t", "a", ":", ",", "/", "/", "=", "=">>),
     Some(<<"n", "o", "t", "-", "b", "a", "s", "e", "6", "4", "!", "!">>)}

ConcurrentBodies(r) ==
    {SolveRequest(ProblemOf(r), <<"E", "n">>, i) : i \in ConcurrentPayloads}
        \cup {ExplainRequest(ProblemOf(r), ProblemOf(r) \o <<"=", "?">>, <<"B", "n">>)}

TextFor(r) == <<"a", "n", "s", "w", "e", "r", " ", ToString(r)>>

ConcurrentErrors == {<<"Q", "u", "o", "t", "a", " ", "h", "i", "t">>}

\* The generation service ends the call of request r.
GenerationEnds(r) ==
    \/ GenerationReturns(r, TextFor(r))
    \/ GenerationReturnsNoText(r)
    \/ \E msg \in ConcurrentErrors : GenerationRaises(r, msg)

ConcurrentNext ==
    \E r \in Requests :
        \/ Receive(r, ConcurrentBodies(r))
        \/ HandlerStep(r)
        \/ GenerationEnds(r)

ConcurrentSpec == Init /\ [][ConcurrentNext]_vars

\* Each handler runs on, and the generation call returns or raises.
Fairness ==
    \A r \in Requests : WF_vars(HandlerStep(r) \/ GenerationEnds(r))

FairSpec == ConcurrentSpec /\ Fairness

\* ------------------------------------------------------------------ claims

Responded(r) == pc[r] = "Responded"

DecodeAttempted(r) == decoded[r] # Undecoded

DecodeFailed(r) == DecodeAttempted(r) /\ ~decoded[r].ok

\* The generation step failed: generate_content raised, or response.text did.
GenerationFailed(r) ==
    \/ result[r].state = "raised"
    \/ result[r].state = "returned" /\ result[r].text.isNone

\* The message of that failure.
GenerationErrorMsg(r) ==
    IF result[r].state = "raised" THEN result[r].msg ELSE MsgNoText

\* msg contains "quota" in some letter case.
MentionsQuota(msg) ==
    LET anyCase == <<{"q", "Q"}, {"u", "U"}, {"o", "O"}, {"t", "T"}, {"a", "A"}>>
    IN  \E i \in 0..(Len(msg) - 5) : \A k \in 1..5 : msg[i + k] \in anyCase[k]

HasComma(s) == \E i \in 1..Len(s) : s[i] = ","

\* The text after the first comma of s.
AfterFirstComma(s) ==
    LET k == CHOOSE i \in 1..Len(s) : s[i] = "," /\ \A j \in 1..(i - 1) : s[j] # ","
    IN  SubSeq(s, k + 1, Len(s))

\* C1: every solve request whose non-empty image_data fails base64 or image
\* decoding is answered with status 400 and a detail that mentions "Invalid
\* image data" together with the reason of the decode failure.
C1_InvalidImageIs400 ==
    \A r \in Requests :
        (Responded(r) /\ DecodeFailed(r)) =>
            /\ Len(responses[r]) = 1
            /\ responses[r][1].status = 400
            /\ Contains(responses[r][1].body.detail, <<"Invalid image data: ">>)
            /\ Contains(responses[r][1].body.detail, decoded[r].msg)

\* C2: when the generation step of solve or explain fails with a message
\* containing "quota" in any letter case, the detail returned starts with the
\* retry guidance and still contains the message; when the message does not
\* contain "quota", no guidance is prepended.
C2_QuotaGuidance ==
    \A r \in Requests :
        (Responded(r) /\ GenerationFailed(r)) =>
            LET msg == GenerationErrorMsg(r)
                detail == responses[r][1].body.detail
            IN  IF MentionsQuota(msg)
                THEN /\ StartsWith(detail, QuotaGuidance)
                     /\ Contains(detail, msg)
                     /\ SubSeq(detail, Len(QuotaGuidance) + 1, Len(detail)) = msg
                ELSE /\ ~StartsWith(detail, QuotaGuidance)
                     /\ Contains(detail, msg)

\* C2 witness: a call that failed with a mixed-case "Quota" message has been
\* answered with the guidance in front, and it was an explain request.
C2_Witness ==
    \E r \in Requests :
        /\ Responded(r)
        /\ request[r].endpoint = "explain"
        /\ result[r].state = "raised"
        /\ MentionsQuota(result[r].msg)
        /\ ~Contains(result[r].msg, Quota)
        /\ StartsWith(responses[r][1].body.detail, QuotaGuidance)

\* C4: for every image_data payload with a comma, the text handed to the
\* base64 decoder is exactly the text after the first comma, so the outcome
\* is that of decoding that text submitted alone; also with several commas.
C4_StripsUpToFirstComma ==
    \A r \in Requests :
        (DecodeAttempted(r) /\ HasComma(request[r].image_data.val)) =>
            /\ base64_data[r] = Some(AfterFirstComma(request[r].image_data.val))
            /\ decoded[r] = DecodeImageData(AfterFirstComma(request[r].image_data.val))

\* C5: for every solve request without image_data, the content sent to the
\* generation layer is a single text prompt containing the request's problem
\* text and language string as given.
C5_TextPromptHasProblemAndLanguage ==
    \A r \in Requests :
        (request[r].endpoint = "solve" /\ ~Truthy(request[r].image_data)) =>
            \A i \in 1..Len(sent[r]) :
                /\ Len(sent[r][i].contents) = 1
                /\ sent[r][i].contents[1].kind = "text"
                /\ Contains(sent[r][i].contents[1].text, request[r].problem)
                /\ Contains(sent[r][i].contents[1].text, request[r].language)

\* C5 witness: a solve request with image_data None and problem "2+2" has
\* placed its call.
C5_Witness ==
    \E r \in Requests :
        /\ request[r].endpoint = "solve"
        /\ request[r].image_data = None
        /\ request[r].problem = <<"2", "+", "2">>
        /\ Len(sent[r]) = 1

\* C6: a request makes at most one generation call over its lifetime: one
\* that reached the generation step has made exactly one, and a failed call
\* is not placed again.
C6_AtMostOneCall ==
    \A r \in Requests :
        /\ Len(sent[r]) <= 1
        /\ (pc[r] = "GenerationInvoked" \/ result[r] # NoResult) => Len(sent[r]) = 1
        /\ pc[r] \in {"Idle", "Received", "Validated", "ImageDecoded", "PromptBuilt"} =>
               Len(sent[r]) = 0

\* C6 witness: a request whose only call raised has been answered.
C6_Witness ==
    \E r \in Requests :
        /\ Responded(r)
        /\ result[r].state = "raised"
        /\ Len(sent[r]) = 1
        /\ responses[r][1].status = 500

IsSuccessOf(resp, r) ==
    /\ resp.status = 200
    /\ result[r].state = "returned"
    /\ ~result[r].text.isNone
    /\ IF request[r].endpoint = "solve"
       THEN DOMAIN resp.body = {"solution"} /\ resp.body.solution = result[r].text.val
       ELSE DOMAIN resp.body = {"explanation"} /\ resp.body.explanation = result[r].text.val

IsErrorOf(resp, r) ==
    /\ resp.status \in 400..599
    /\ DOMAIN resp.body = {"detail"}
    /\ DecodeFailed(r) \/ GenerationFailed(r)

\* C7: each request produces exactly one response, a success carrying only
\* the solution (solve) or explanation (explain) with the generated text, or
\* an error carrying only a status code and a detail; a request whose
\* generation call or image decode failed returns no solution or explanation.
C7_OneResponseNoPartialResult ==
    \A r \in Requests :
        /\ Len(responses[r]) = (IF Responded(r) THEN 1 ELSE 0)
        /\ \A i \in 1..Len(responses[r]) :
               /\ IsSuccessOf(responses[r][i], r) \/ IsErrorOf(responses[r][i], r)
               /\ (DecodeFailed(r) \/ GenerationFailed(r)) =>
                      DOMAIN responses[r][i].body \cap {"solution", "explanation"} = {}

\* C7 witness: a solve request whose response had no text has been answered
\* with an error.
C7_Witness ==
    \E r \in Requests :
        /\ Responded(r)
        /\ request[r].endpoint = "solve"
        /\ result[r] = Returned(None)
        /\ IsErrorOf(responses[r][1], r)

\* C8: in both handlers an error of the generation call or of reading the
\* response text yields status 500, with the detail equal to the error
\* message when that message has no "quota" in it; explain never answers 400.
C8_GenerationErrorIs500 ==
    \A r \in Requests :
        /\ (Responded(r) /\ GenerationFailed(r)) =>
               /\ responses[r][1].status = 500
               /\ ~MentionsQuota(GenerationErrorMsg(r)) =>
                      responses[r][1].body.detail = GenerationErrorMsg(r)
        /\ request[r].endpoint = "explain" =>
               \A i \in 1..Len(responses[r]) : responses[r][i].status # 400

\* C8 witness: an explain request whose call raised "API key not valid" has
\* been answered.
C8_Witness ==
    \E r \in Requests :
        /\ Responded(r)
        /\ request[r].endpoint = "explain"
        /\ result[r].state = "raised"
        /\ Len(result[r].msg) > 5
        /\ ~MentionsQuota(result[r].msg)
        /\ responses[r][1].status = 500

\* C10: solve chooses its path on the truthiness of image_data alone.  With
\* a non-empty image_data the content sent is exactly [decoded image, image
\* prompt], and the image prompt is the fixed sentence followed by the
\* language's instructions, without the problem text.  With image_data None
\* or "" no decode is attempted and the content is exactly the one text
\* prompt that quotes the problem.
C10_PathByImageData ==
    \A r \in Requests :
        request[r].endpoint = "solve" =>
            IF Truthy(request[r].image_data)
            THEN /\ pc[r] \in {"ImageDecoded", "PromptBuilt", "GenerationInvoked"} =>
                        DecodeAttempted(r) /\ decoded[r].ok
                 /\ Responded(r) => DecodeAttempted(r)
                 /\ \A i \in 1..Len(sent[r]) :
                        sent[r][i].contents =
                            <<ImagePart(decoded[r].img),
                              TextPart(<<"Solve the math problem shown in the attached image. ">>
                                           \o solve_prompt_base(request[r].language))>>
            ELSE /\ ~DecodeAttempted(r)
                 /\ base64_data[r] = None
                 /\ \A i \in 1..Len(sent[r]) :
                        sent[r][i].contents =
                            <<TextPart(<<"Solve the following problem: '">> \o request[r].problem
                                           \o <<"'. ">> \o solve_prompt_base(request[r].language))>>

\* C10 witness: a solve request with both a problem text and a decodable
\* image has placed its call.
C10_Witness ==
    \E r \in Requests :
        /\ request[r].endpoint = "solve"
        /\ Truthy(request[r].image_data)
        /\ request[r].problem = <<"2", "+", "2">>
        /\ Len(sent[r]) = 1
        /\ Len(sent[r][1].contents) = 2

\* What a request's own fields make of its generation call.
OwnContents(req) ==
    IF req.endpoint = "explain" THEN ExplainPrompt(req)
    ELSE IF Truthy(req.image_data)
    THEN <<ImagePart(DecodeImageData(req.image_data.val).img), TextPart(SolveImagePrompt(req))>>
    ELSE <<TextPart(SolveTextPrompt(req))>>

\* The texts a call's contents carry, one after the other.
ContentsText(c, endpoint) ==
    IF endpoint = "explain" THEN c
    ELSE IF Len(c) = 0 THEN <<>>
    ELSE IF c[Len(c)].kind = "text" THEN c[Len(c)].text ELSE <<>>

\* The text of a response: its solution, explanation or detail.
ResponseText(resp) ==
    IF "solution" \in DOMAIN resp.body THEN resp.body.solution
    ELSE IF "explanation" \in DOMAIN resp.body THEN resp.body.explanation
    ELSE resp.body.detail

\* C3: with pairwise distinct problems, under any interleaving, what each
\* request sends and answers comes from its own fields and its own call's
\* result only: nothing of another request's problem appears in it.
C3_NoLeakBetweenRequests ==
    \A r \in Requests :
        /\ \A i \in 1..Len(sent[r]) :
               /\ sent[r][i].contents = OwnContents(request[r])
               /\ Len(ContentsText(sent[r][i].contents, request[r].endpoint)) > 0
               /\ \A o \in Requests \ {r} :
                      ~Contains(ContentsText(sent[r][i].contents, request[r].endpoint),
                                ProblemOf(o))
        /\ \A i \in 1..Len(responses[r]) :
               /\ \/ IsSuccessOf(responses[r][i], r)
                  \/ /\ GenerationFailed(r)
                     /\ Contains(responses[r][i].body.detail, GenerationErrorMsg(r))
                  \/ DecodeFailed(r)
               /\ \A o \in Requests \ {r} :
                      ~Contains(ResponseText(responses[r][i]), ProblemOf(o))

\* C3 witness: a solve and an explain request with different problems
\* overlap: one has its result and has not answered yet while the other's
\* call is still pending.
C3_Witness ==
    \E r, o \in Requests :
        /\ r # o
        /\ request[r].endpoint = "solve"
        /\ request[o].endpoint = "explain"
        /\ request[r].problem # request[o].problem
        /\ pc[r] = "GenerationInvoked" /\ result[r].state = "returned"
        /\ pc[o] = "GenerationInvoked" /\ result[o] = Pending

Rank(state) ==
    CASE state = "Idle" -> 0
      [] state = "Received" -> 1
      [] state = "Validated" -> 2
      [] state = "ImageDecoded" -> 3
      [] state = "PromptBuilt" -> 4
      [] state = "GenerationInvoked" -> 5
      [] state = "Responded" -> 6

HasImage(r) == request[r].endpoint = "solve" /\ Truthy(request[r].image_data)

\* One step of request r keeps the order of the states.
InOrder(r) ==
    \/ pc'[r] = pc[r] /\ (Responded(r) => responses'[r] = responses[r])
    \/ /\ pc'[r] # pc[r]
       /\ Rank(pc'[r]) > Rank(pc[r])
       /\ \/ Rank(pc'[r]) = Rank(pc[r]) + 1 /\ pc'[r] # "ImageDecoded"
          \/ pc[r] = "Validated" /\ pc'[r] = "ImageDecoded" /\ HasImage(r)
          \/ pc[r] = "Validated" /\ pc'[r] = "PromptBuilt" /\ ~HasImage(r)
          \/ pc[r] = "Validated" /\ pc'[r] = "Responded" /\ HasImage(r)
                /\ decoded'[r] # Undecoded /\ ~decoded'[r].ok
       /\ (pc[r] = "Validated" /\ Rank(pc'[r]) = 3) => HasImage(r)

\* C9: every request passes Received, Validated, ImageDecoded (solve with
\* image data only), PromptBuilt, GenerationInvoked, Responded in this order
\* and never goes back; with image data the decode precedes the generation
\* call, which is never placed after a failed decode; Responded is final and
\* every received request reaches it, given that the handler runs and the
\* generation call returns or raises.
C9_Lifecycle ==
    /\ [][\A r \in Requests : InOrder(r)]_vars
    /\ [](\A r \in Requests :
             /\ (HasImage(r) /\ Len(sent[r]) > 0) => (DecodeAttempted(r) /\ decoded[r].ok)
             /\ DecodeFailed(r) => (Len(sent[r]) = 0 /\ result[r] = NoResult)
             /\ pc[r] = "ImageDecoded" => HasImage(r))
    /\ \A r \in Requests : (pc[r] = "Received") ~> Responded(r)

\* C9 witness: a solve request with a decodable image has gone all the way
\* to a successful response while another request's decode failed.
C9_Witness ==
    \E r, o \in Requests :
        /\ HasImage(r) /\ Responded(r) /\ decoded[r].ok
        /\ Len(sent[r]) = 1 /\ responses[r][1].status = 200
        /\ Responded(o) /\ DecodeFailed(o) /\ Len(sent[o]) = 0
====
